---------------------------- MODULE Spec2Model ----------------------------
(***************************************************************************)
(* Model of plugins/modules/ucs_vlan_to_vnic_template.py: the reconcile    *)
(* logic of main() against the UCS Manager managed-object tree.            *)
(*                                                                         *)
(* A distinguished name is a sequence of string pieces, so that string     *)
(* concatenation in the module is sequence concatenation here.  The remote *)
(* tree maps every dn to "none" (no object), "mo" (the vNIC template) or   *)
(* the default_net value of a VLAN child ("yes" / "no").                   *)
(*                                                                         *)
(* The login handle (ucsmsdk) buffers remove_mo / add_mo requests and      *)
(* applies them on commit; query_dn reads the committed tree.  Passing     *)
(* None to remove_mo or add_mo dereferences None and raises.               *)
(***************************************************************************)
EXTENDS Naturals, Sequences, FiniteSets

VARIABLES tree, params, result, trace, fault, runs, before, prev

vars == <<tree, params, result, trace, fault, runs, before, prev>>

(* ------------------------------ bounds -------------------------------- *)
MaxLen == 3

MaxRuns == 2

(* ------------------------------ domains ------------------------------- *)
OrgDns == {<<"org-root">>}

Names == {"vNIC-A"}

VlanNames == {"default", "v10"}

Native == {"yes", "no"}

States == {"present", "absent"}

Vlan == [name : VlanNames, native : Native]

VlanLists == UNION {[1..n -> Vlan] : n \in 0..MaxLen}

Params == [org_dn : OrgDns, name : Names, vlans_list : VlanLists,
           state : States, check_mode : BOOLEAN]

(* dn = module.params['org_dn'] + '/lan-conn-templ-' + module.params['name'] *)
template_dn(org_dn, name) == org_dn \o <<"/lan-conn-templ-", name>>

(* child_dn = dn + '/if-' + str(vlan['name']) *)
child_dn(dn, vlan) == dn \o <<"/if-", vlan.name>>

TemplateDns == {template_dn(o, n) : o \in OrgDns, n \in Names}

ChildDns == {child_dn(d, v) : d \in TemplateDns, v \in Vlan}

AllDns == TemplateDns \cup ChildDns

ParentOf(d) == SubSeq(d, 1, Len(d) - 2)

(* Trees the appliance can hold: a VLAN child exists only under a template *)
Trees == {t \in [AllDns -> {"none", "mo", "yes", "no"}] :
            /\ \A d \in TemplateDns : t[d] \in {"none", "mo"}
            /\ \A d \in ChildDns : /\ t[d] \in {"none", "yes", "no"}
                                   /\ t[d] # "none" => t[ParentOf(d)] = "mo"}

(* ---------------------------- managed objects ------------------------- *)
None == [dn |-> <<>>, default_net |-> "None"]

NoExc == "no exception"

ConnErr == "connection error"

NoneErr == "'NoneType' object has no attribute"

(* Python truthiness of a query_dn result: `if mo:` *)
IsTrueMut(mo) == TRUE

IsTrue(mo) == mo # None

(* mo_1.check_prop_match(default_net=vlan['native']) *)
check_prop_matchMut(mo, native) == FALSE

check_prop_match(mo, native) == mo.default_net = native

(* module.check_mode *)
check_modeMut(p) == FALSE

check_mode(p) == p.check_mode

(* ------------------------- the login handle --------------------------- *)
(* h: the state of one invocation:                                         *)
(*   tree   the committed remote tree                                      *)
(*   buf    requests buffered by remove_mo / add_mo until commit           *)
(*   trace  calls issued so far; n counts the connection-layer calls       *)
(*   fault  index of the connection-layer call that fails (0: none does)   *)
(*   exc    the exception propagating to the except clause, or NoExc       *)
(*   ret    the value returned by the last query_dn                        *)

Call(op, dn, arg) == [op |-> op, dn |-> dn, arg |-> arg]

Issue(h, op, dn) ==
  [h EXCEPT !.trace = Append(@, Call(op, dn, "")), !.n = @ + 1]

RaiseMut(h, e) == h

Raise(h, e) == [h EXCEPT !.exc = e]

query_dn(h, dn) ==
  IF h.exc # NoExc THEN h
  ELSE LET h1 == Issue(h, "query_dn", dn)
       IN IF h1.n = h1.fault THEN Raise(h1, ConnErr)
          ELSE [h1 EXCEPT !.ret = IF h.tree[dn] = "none" THEN None
                                   ELSE [dn |-> dn, default_net |-> h.tree[dn]]]

remove_mo(h, mo) ==
  IF h.exc # NoExc THEN h
  ELSE LET h1 == Issue(h, "remove_mo", mo.dn)
       IN IF mo = None THEN Raise(h1, NoneErr)
          ELSE IF h1.n = h1.fault THEN Raise(h1, ConnErr)
          ELSE [h1 EXCEPT !.buf = Append(@, [op |-> "remove", dn |-> mo.dn,
                                              kids |-> <<>>])]

(* VnicEtherIf(parent_mo_or_dn=mo, name=..., default_net=...): a local     *)
(* object attached to the parent's child list; no connection-layer call.   *)
VnicEtherIf(h, mo, vlan) ==
  IF h.exc # NoExc THEN h
  ELSE [h EXCEPT
          !.trace = Append(@, Call("VnicEtherIf", child_dn(mo.dn, vlan), vlan.native)),
          !.kids = Append(@, [dn |-> child_dn(mo.dn, vlan),
                              default_net |-> vlan.native])]

(* add_mo(mo, True): modify_present, the children travel with the parent *)
add_mo(h, mo) ==
  IF h.exc # NoExc THEN h
  ELSE LET h1 == Issue(h, "add_mo", mo.dn)
       IN IF mo = None THEN Raise(h1, NoneErr)
          ELSE IF h1.n = h1.fault THEN Raise(h1, ConnErr)
          ELSE [h1 EXCEPT !.buf = Append(@, [op |-> "add", dn |-> mo.dn,
                                              kids |-> h.kids])]

RECURSIVE ApplyKids(_, _, _)
ApplyKids(t, kids, i) ==
  IF i > Len(kids) THEN t
  ELSE ApplyKids([t EXCEPT ![kids[i].dn] = kids[i].default_net], kids, i + 1)

ApplyReq(t, req) ==
  IF req.op = "remove" THEN [t EXCEPT ![req.dn] = "none"]
  ELSE ApplyKids(t, req.kids, 1)

RECURSIVE ApplyBuf(_, _, _)
ApplyBuf(t, buf, i) ==
  IF i > Len(buf) THEN t ELSE ApplyBuf(ApplyReq(t, buf[i]), buf, i + 1)

commitMut(h) ==
  IF h.exc # NoExc THEN h
  ELSE LET h1 == Issue(h, "commit", <<>>)
       IN IF h1.n = h1.fault THEN Raise(h1, ConnErr)
          ELSE [h1 EXCEPT !.buf = <<>>]

commit(h) ==
  IF h.exc # NoExc THEN h
  ELSE LET h1 == Issue(h, "commit", <<>>)
       IN IF h1.n = h1.fault THEN Raise(h1, ConnErr)
          ELSE [h1 EXCEPT !.tree = ApplyBuf(h.tree, h.buf, 1), !.buf = <<>>]

(* changed = True, reached only when no exception is propagating *)
set_changedMut(h) == [h EXCEPT !.changed = TRUE]

set_changed(h) == IF h.exc # NoExc THEN h ELSE [h EXCEPT !.changed = TRUE]


(* ------------------------------ main() -------------------------------- *)
(* lines 246-249, with a commit issued inside the loop *)
RECURSIVE RemoveLoopMut(_, _, _, _)
RemoveLoopMut(h, dn, vlans, i) ==
  IF i > Len(vlans) THEN h
  ELSE LET h1 == query_dn(h, child_dn(dn, vlans[i]))
       IN RemoveLoopMut(commit(remove_mo(h1, h1.ret)), dn, vlans, i + 1)

(* for vlan in vlans_list: mo_1 = query_dn(child_dn); remove_mo(mo_1) *)
RECURSIVE RemoveLoop(_, _, _, _)
RemoveLoop(h, dn, vlans, i) ==
  IF i > Len(vlans) THEN h
  ELSE LET h1 == query_dn(h, child_dn(dn, vlans[i]))
       IN RemoveLoop(remove_mo(h1, h1.ret), dn, vlans, i + 1)

(* lines 254-268, without the break on a missing child *)
RECURSIVE ScanLoopMut(_, _, _, _)
ScanLoopMut(h, p, dn, i) ==
  IF i > Len(p.vlans_list) \/ h.exc # NoExc THEN h
  ELSE LET h1 == query_dn(h, child_dn(dn, p.vlans_list[i]))
           mo_1 == h1.ret
       IN IF h1.exc # NoExc THEN h1
          ELSE IF IsTrue(mo_1)
               THEN ScanLoopMut(IF check_prop_match(mo_1, p.vlans_list[i].native)
                                THEN [h1 EXCEPT !.props_match = TRUE] ELSE h1,
                                p, dn, i + 1)
               ELSE ScanLoopMut([h1 EXCEPT !.props_match = FALSE], p, dn, i + 1)

(* the "check vlan props" loop; a branch that returns without recursing is *)
(* a break                                                                 *)
RECURSIVE ScanLoop(_, _, _, _)
ScanLoop(h, p, dn, i) ==
  IF i > Len(p.vlans_list) \/ h.exc # NoExc THEN h
  ELSE LET h1 == query_dn(h, child_dn(dn, p.vlans_list[i]))
           mo_1 == h1.ret
       IN IF h1.exc # NoExc THEN h1
          ELSE IF p.state = "absent"
               THEN IF IsTrue(mo_1)
                    THEN [h1 EXCEPT !.props_match = FALSE]
                    ELSE ScanLoop(h1, p, dn, i + 1)
               ELSE IF IsTrue(mo_1)
                    THEN ScanLoop(IF check_prop_match(mo_1, p.vlans_list[i].native)
                                  THEN [h1 EXCEPT !.props_match = TRUE] ELSE h1,
                                  p, dn, i + 1)
                    ELSE [h1 EXCEPT !.props_match = FALSE]

(* for vlan in vlans_list: mo_1 = VnicEtherIf(parent_mo_or_dn=mo, ...) *)
RECURSIVE BuildLoop(_, _, _, _)
BuildLoop(h, mo, vlans, i) ==
  IF i > Len(vlans) THEN h
  ELSE BuildLoop(VnicEtherIf(h, mo, vlans[i]), mo, vlans, i + 1)

(* state == 'absent' *)
absent_branch(h, p, dn, mo) ==
  IF IsTrue(mo)
  THEN set_changed(IF ~check_mode(p)
                   THEN commit(RemoveLoop(h, dn, p.vlans_list, 1))
                   ELSE h)
  ELSE h

(* state == 'present' *)
present_branch(h, p, dn, mo) ==
  LET s == ScanLoop(h, p, dn, 1)
  IN IF s.exc # NoExc THEN s
     ELSE IF ~s.props_match
          THEN set_changed(IF ~check_mode(p)
                           THEN commit(add_mo(BuildLoop(s, mo, p.vlans_list, 1), mo))
                           ELSE s)
          ELSE s

Handle(t, f) ==
  [tree |-> t, buf |-> <<>>, kids |-> <<>>, trace |-> <<>>, n |-> 0, fault |-> f,
   exc |-> NoExc, ret |-> None, props_match |-> FALSE, changed |-> FALSE]

(* ucs.result['msg'] = "setup error: %s " % str(e) *)
setup_error(e) == <<"setup error: ", e, " ">>

(* The whole of main() from `changed = False` to fail_json / exit_json *)
main(t, p, f) ==
  LET dn == template_dn(p.org_dn, p.name)
      h1 == query_dn(Handle(t, f), dn)
      mo == h1.ret
      h2 == IF h1.exc # NoExc THEN h1
            ELSE IF p.state = "absent" THEN absent_branch(h1, p, dn, mo)
            ELSE present_branch(h1, p, dn, mo)
  IN [changed |-> h2.changed,
      failed |-> h2.exc # NoExc,
      msg |-> IF h2.exc # NoExc THEN setup_error(h2.exc) ELSE <<>>,
      tree |-> h2.tree, trace |-> h2.trace, n |-> h2.n]

(* ------------------------------ the system ---------------------------- *)
NoResult == [changed |-> FALSE, failed |-> FALSE, msg |-> <<>>]

Init ==
  /\ tree \in Trees
  /\ params \in Params
  /\ result = NoResult
  /\ trace = <<>>
  /\ fault = 0
  /\ runs = 0
  /\ before = tree
  /\ prev = [changed |-> FALSE, failed |-> FALSE, fault |-> 0]

(* One invocation of the module with the task's parameters.  f is the     *)
(* connection-layer call that fails for a reason of its own (0: none).    *)
(* The task is repeated on the same session only while the connection has *)
(* not failed: an invocation cut short by the connection commits nothing, *)
(* so the tree it leaves is one Init already starts from.                 *)
Reconcile ==
  /\ runs < MaxRuns
  /\ fault = 0
  /\ \E f \in 0..main(tree, params, 0).n :
       LET r == main(tree, params, f)
       IN /\ tree' = r.tree
          /\ result' = [changed |-> r.changed, failed |-> r.failed, msg |-> r.msg]
          /\ trace' = r.trace
          /\ fault' = f
  /\ runs' = runs + 1
  /\ before' = tree
  /\ prev' = [changed |-> result.changed, failed |-> result.failed, fault |-> fault]
  /\ UNCHANGED params

Next == Reconcile

Spec == Init /\ [][Next]_vars

(* --------------------- vocabulary of the properties ------------------- *)
Decl == params.vlans_list

Dn == template_dn(params.org_dn, params.name)

Ran == runs > 0

NoFault == fault = 0

TemplateExisted == before[Dn] # "none"

(* the value the i-th declared VLAN had remotely when the invocation began *)
Remote(i) == before[child_dn(Dn, Decl[i])]

Missing(i) == Remote(i) = "none"

Mismatched(i) == Remote(i) # "none" /\ Remote(i) # Decl[i].native

AllMatch == \A i \in 1..Len(Decl) : Remote(i) = Decl[i].native

UniqueNames == \A i, j \in 1..Len(Decl) : Decl[i].name = Decl[j].name => i = j

Mutating == {"remove_mo", "add_mo", "commit"}

ConnOps == Mutating \cup {"query_dn"}

Calls(ops) == SelectSeq(trace, LAMBDA c : c.op \in ops)

NoMutation == Calls(Mutating) = <<>>

(* the calls of a full rebuild: one child per declared VLAN, add_mo, commit *)
RebuildCalls ==
  [i \in 1..Len(Decl) |-> Call("VnicEtherIf", child_dn(Dn, Decl[i]), Decl[i].native)]
    \o <<Call("add_mo", Dn, ""), Call("commit", <<>>, "")>>

Rebuilt ==
  /\ Calls(Mutating \cup {"VnicEtherIf"}) = RebuildCalls
  /\ Len(trace) >= Len(RebuildCalls)
  /\ SubSeq(trace, Len(trace) - Len(RebuildCalls) + 1, Len(trace)) = RebuildCalls

(* the calls of the removal: query and remove each declared child, commit *)
RemovalCalls ==
  [i \in 1..(2 * Len(Decl)) |->
     IF i % 2 = 1 THEN Call("query_dn", child_dn(Dn, Decl[(i + 1) \div 2]), "")
     ELSE Call("remove_mo", child_dn(Dn, Decl[i \div 2]), "")]
    \o <<Call("commit", <<>>, "")>>

(* the same task run for real instead of as a dry run, and conversely *)
Flip(p) == [p EXCEPT !.check_mode = ~@]

C2_RebuildOnAnyMismatch ==
  (/\ Ran /\ NoFault /\ params.state = "present" /\ ~params.check_mode
   /\ TemplateExisted /\ UniqueNames
   /\ \E i \in 1..Len(Decl) : Missing(i) \/ Mismatched(i))
    => (result.changed /\ Rebuilt)

(* ------------------------------- C3 ----------------------------------- *)
(* C3 as claimed: state=present and every declared VLAN exists under the   *)
(* template with default_net equal to its declared native flag: changed is *)
(* false, no remove_mo, add_mo or commit is issued and no VLAN child is    *)
(* constructed.                                                            *)
C3_AllMatchNoMutation ==
  (Ran /\ NoFault /\ params.state = "present" /\ AllMatch)
    => (~result.changed /\ NoMutation /\ Calls({"VnicEtherIf"}) = <<>>)

(* C3 amended: the same, for a vlans_list with at least one element. *)
C3_AllMatchNoMutationNonEmpty ==
  (Ran /\ NoFault /\ params.state = "present" /\ Len(Decl) > 0 /\ AllMatch)
    => (~result.changed /\ NoMutation /\ Calls({"VnicEtherIf"}) = <<>>)

C3_Witness ==
  /\ Ran /\ NoFault /\ params.state = "present" /\ ~params.check_mode
  /\ Len(Decl) > 1 /\ AllMatch
  /\ \E i, j \in 1..Len(Decl) : Decl[i].name # Decl[j].name
  /\ ~result.changed /\ ~result.failed

(* ------------------------------- C4 ----------------------------------- *)
(* C4: a dry run issues no remove_mo, no add_mo and no commit, whatever    *)
(* the input, the remote tree and the branch, and leaves the remote tree   *)
(* as it found it.                                                         *)
C4_DryRunNoMutation ==
  (Ran /\ params.check_mode) => (NoMutation /\ tree = before)

C4_Witness ==
  /\ Ran /\ params.check_mode /\ NoFault /\ result.changed
  /\ params.state = "absent" /\ Len(Decl) > 0 /\ \A i \in 1..Len(Decl) : ~Missing(i)

(* ------------------------------- C5 ----------------------------------- *)
(* C5: on the same input and the same initial remote tree, the dry run and *)
(* the real run report the same changed value, the connection layer        *)
(* failing in neither.                                                     *)
C5_DryRunPredictsChanged ==
  (Ran /\ NoFault) => result.changed = main(before, Flip(params), 0).changed

C7_AbsentMissingTemplate ==
  (Ran /\ NoFault /\ params.state = "absent" /\ ~TemplateExisted)
    => (~result.changed /\ ~result.failed /\ NoMutation)

C7_Witness ==
  /\ Ran /\ NoFault /\ params.state = "absent" /\ ~TemplateExisted
  /\ ~params.check_mode /\ Len(Decl) > 0
  /\ ~result.changed /\ ~result.failed /\ trace = <<Call("query_dn", Dn, "")>>

(* ------------------------------- C8 ----------------------------------- *)
(* the i-th recorded call was handed None and raised on dereferencing it *)
NoneCallAt(i) == trace[i].op \in {"remove_mo", "add_mo"} /\ trace[i].dn = None.dn

RaisedNone == \E i \in 1..Len(trace) : NoneCallAt(i)

(* the connection-layer call chosen to fail was issued *)
RaisedConn == fault \in 1..Len(Calls(ConnOps)) /\ ~RaisedNone

(* C8: when a connection-layer call raises, it is the last call of the     *)
(* invocation, the outcome is failure and msg carries the exception's      *)
(* message; when none raises, the outcome is success without msg.          *)
C8_AbortOnException ==
  Ran =>
    /\ RaisedNone =>
         /\ NoneCallAt(Len(trace))
         /\ \A i \in 1..(Len(trace) - 1) : ~NoneCallAt(i)
         /\ result.failed /\ result.msg = setup_error(NoneErr)
    /\ RaisedConn =>
         /\ Len(Calls(ConnOps)) = fault
         /\ trace[Len(trace)].op \in ConnOps
         /\ result.failed /\ result.msg = setup_error(ConnErr)
    /\ (~RaisedNone /\ ~RaisedConn) => (~result.failed /\ result.msg = <<>>)

C8_Witness ==
  /\ Ran /\ RaisedConn /\ params.state = "absent" /\ ~params.check_mode
  /\ Len(Decl) > 1 /\ fault = 3
  /\ trace[Len(trace)].op = "remove_mo"
  /\ result.failed /\ result.msg = setup_error(ConnErr)

(* ------------------------------- C9 ----------------------------------- *)
FirstMissing == CHOOSE i \in 1..Len(Decl) : Missing(i) /\ \A j \in 1..(i - 1) : ~Missing(j)

(* C9: state=present, the template exists and a declared VLAN is missing:  *)
(* the children are looked up in list order up to the first missing one    *)
(* and no further, and the rebuild follows (changed=true), also when       *)
(* earlier declared VLANs matched.                                         *)
C9_FirstMissShortCircuit ==
  (/\ Ran /\ NoFault /\ params.state = "present" /\ TemplateExisted
   /\ \E i \in 1..Len(Decl) : Missing(i))
    => /\ Calls({"query_dn"}) =
            <<Call("query_dn", Dn, "")>>
              \o [i \in 1..FirstMissing |-> Call("query_dn", child_dn(Dn, Decl[i]), "")]
       /\ result.changed
       /\ ~params.check_mode => Rebuilt

C9_Witness ==
  /\ Ran /\ NoFault /\ params.state = "present" /\ TemplateExisted
  /\ ~params.check_mode
  /\ Len(Decl) = 3 /\ Remote(1) = Decl[1].native /\ Missing(2) /\ FirstMissing = 2
  /\ Len(Calls({"query_dn"})) = 3
  /\ result.changed /\ Rebuilt

(* ------------------------------- C10 ---------------------------------- *)
(* C10: a failed invocation reports changed=false, whatever calls were     *)
(* issued before the exception.                                            *)
C10_FailureReportsUnchanged == (Ran /\ result.failed) => ~result.changed

C10_Witness ==
  /\ Ran /\ result.failed /\ ~result.changed
  /\ Len(Calls({"remove_mo"})) > 1
  /\ trace[Len(trace)].op = "commit"

=============================================================================
